---------------------------- MODULE Spec2Model ----------------------------
(***************************************************************************)
(* A model of the multimodal_AI tutorial notebooks.                        *)
(*                                                                         *)
(* Part 1 models a Jupyter kernel that runs the code cells of one of the   *)
(* repository's notebooks from the first to the last: every statement of   *)
(* every code cell is transcribed with the global names it reads, the      *)
(* names it binds and the kind of operation it performs.                   *)
(*                                                                         *)
(* Part 2 models the data-mapping functions the notebooks define (label    *)
(* dictionaries, soft targets, speaker and length filters, the data        *)
(* collator) as operators applied to bounded inputs.                       *)
(***************************************************************************)
EXTENDS Integers, Sequences, FiniteSets, TLC

VARIABLES
    nb,              \* the notebook being run ("none" outside Part 1)
    cell,            \* index of the current code cell
    stmt,            \* index of the next statement inside the current cell
    env,             \* the kernel's global namespace: name -> <<origin, line>>
    log,             \* the operations performed so far, in order
    errors,          \* the exceptions raised so far
    status,          \* "running", "failed" (current cell raised), "done", "halted"
    pc,              \* the step reached by the data functions of Part 2
    dataset,         \* the dataset the data functions work on
    unique_labels,   \* VQA: list(set(flattened_labels))
    label2id,        \* VQA: answer string -> id
    id2label,        \* VQA: id -> answer string
    flat_dataset,    \* VQA: dataset.flatten() after replace_ids
    processed_dataset, \* VQA: flat_dataset.map(preprocess_data)
    speaker_counts,  \* TTS: speaker_id -> number of examples
    features,        \* TTS: the features handed to the data collator
    reduction_factor,\* TTS: model.config.reduction_factor
    batch,           \* TTS: what the data collator returns
    updated_dataset, \* DocVQA: the mapped and filtered DatasetDict
    cell_start,      \* the value the assigned variable had when the cell began
    vocabs,          \* TTS: dataset.map(extract_all_chars, ...)
    files            \* the directories written so far: path -> set of file names

vars == <<nb, cell, stmt, env, log, errors, status, pc, dataset, unique_labels,
          label2id, id2label, flat_dataset, processed_dataset, speaker_counts,
          features, reduction_factor, batch, updated_dataset, cell_start,
          vocabs, files>>

nbVars == <<nb, cell, stmt, env, log, errors, status>>

dataVars == <<pc, dataset, unique_labels, label2id, id2label, flat_dataset,
              processed_dataset, speaker_counts, features, reduction_factor,
              batch, updated_dataset, cell_start, vocabs, files>>

moreVars == <<cell_start, vocabs, files>>

(***************************************************************************)
(* Part 1.  Statements of a notebook cell.                                 *)
(*   line   : the line of the .ipynb file the statement starts at          *)
(*   reads  : the global names the statement itself looks up               *)
(*   calls  : the notebook-defined function bodies it runs                 *)
(*   binds  : the <<name, origin>> pairs it binds when it completes        *)
(*   op     : the kind of operation                                        *)
(*   raises : an exception the statement raises whatever the namespace     *)
(* Python builtins (len, set, list, print, zip, max, ...) are always       *)
(* bound and are left out of reads.                                        *)
(***************************************************************************)
Import(line, binds) ==
    [line |-> line, reads |-> {}, calls |-> {}, binds |-> binds,
     op |-> "none", raises |-> "none"]

Stmt(line, reads, calls, targets_, op) ==
    [line |-> line, reads |-> reads, calls |-> calls,
     binds |-> {<<t, "assign">> : t \in targets_}, op |-> op,
     raises |-> "none"]

Def(line, name, reads) ==
    [line |-> line, reads |-> reads, calls |-> {},
     binds |-> {<<name, "def">>}, op |-> "none", raises |-> "none"]

Shell(line) ==
    [line |-> line, reads |-> {}, calls |-> {}, binds |-> {},
     op |-> "none", raises |-> "none"]

Raising(s, exc) == [s EXCEPT !.raises = exc]

(***************************************************************************)
(* The global names a notebook-defined function body looks up when it      *)
(* runs, and the notebook-defined functions it calls in turn.  Python      *)
(* resolves them at call time, not at definition time.                     *)
(***************************************************************************)
FunctionBody(f) ==
    CASE f = "extract_all_chars" -> [reads |-> {}, calls |-> {}]
      [] f = "cleanup_text" -> [reads |-> {"replacements"}, calls |-> {}]
      [] f = "select_speaker" -> [reads |-> {"speaker_counts"}, calls |-> {}]
      [] f = "create_speaker_embedding" ->
            [reads |-> {"torch", "speaker_model"}, calls |-> {}]
      [] f = "prepare_dataset" ->
            [reads |-> {"processor", "create_speaker_embedding"},
             calls |-> {"create_speaker_embedding"}]
      [] f = "is_not_too_long" -> [reads |-> {}, calls |-> {}]
      [] f = "TTSDataCollatorWithPadding.__call__" ->
            [reads |-> {"processor", "torch", "model"}, calls |-> {}]
      [] f = "plot_images" -> [reads |-> {"plt", "wrap"}, calls |-> {}]
      [] f = "transforms" -> [reads |-> {"processor"}, calls |-> {}]
      [] f = "compute_metrics" -> [reads |-> {"processor", "wer"}, calls |-> {}]
      [] f = "replace_ids" -> [reads |-> {"label2id"}, calls |-> {}]
      [] f = "preprocess_data" ->
            [reads |-> {"Image", "processor", "torch", "id2label"},
             calls |-> {}]
      [] OTHER -> [reads |-> {}, calls |-> {}]

(***************************************************************************)
(* 04_text_to_speech.ipynb, one tuple of statements per code cell.         *)
(***************************************************************************)
TextToSpeechNotebook == <<
    \* the Bark example
    << Import(28, {<<"pipeline", "transformers.pipeline">>}),
       Import(29, {<<"Audio", "IPython.display.Audio">>}),
       Stmt(31, {"pipeline"}, {}, {"pipe"}, "pipeline"),
       Stmt(32, {}, {}, {"text"}, "none"),
       Stmt(33, {"pipe", "text"}, {}, {"output"}, "infer"),
       Stmt(34, {"Audio", "output"}, {}, {}, "none") >>,
    << Shell(64), Shell(67) >>,
    << Shell(80), Shell(83) >>,
    << Import(93, {<<"os", "os">>}),
       Import(94, {<<"torch", "torch">>}),
       Import(95, {<<"plt", "matplotlib.pyplot">>}),
       Import(96, {<<"Audio", "IPython.display.Audio">>}),
       Import(97, {<<"dataclass", "dataclasses.dataclass">>}),
       Import(98, {<<"pipeline", "transformers.pipeline">>}),
       Import(99, {<<"defaultdict", "collections.defaultdict">>}),
       Import(100, {<<"Any", "typing.Any">>, <<"Dict", "typing.Dict">>,
                    <<"List", "typing.List">>, <<"Union", "typing.Union">>}),
       Import(101, {<<"get_backend",
                      "accelerate.test_utils.testing.get_backend">>}),
       Import(102, {<<"EncoderClassifier",
                      "speechbrain.inference.classifiers.EncoderClassifier">>}),
       Import(103, {<<"SpeechT5Processor", "transformers.SpeechT5Processor">>,
                    <<"SpeechT5ForTextToSpeech",
                      "transformers.SpeechT5ForTextToSpeech">>,
                    <<"Seq2SeqTrainingArguments",
                      "transformers.Seq2SeqTrainingArguments">>}) >>,
    << Import(132, {<<"load_dataset", "datasets.load_dataset">>,
                    <<"Audio", "datasets.Audio">>}),
       Stmt(135, {"load_dataset"}, {}, {"dataset"}, "load"),
       Stmt(136, {"dataset"}, {}, {}, "none") >>,
    << Stmt(148, {"dataset", "Audio"}, {}, {"dataset"}, "none") >>,
    << Stmt(175, {}, {}, {"checkpoint"}, "none"),
       Stmt(176, {"SpeechT5Processor", "checkpoint"}, {}, {"processor"}, "none"),
       Stmt(177, {"processor"}, {}, {"tokenizer"}, "none") >>,
    << Def(199, "extract_all_chars", {}),
       Stmt(205, {"dataset", "extract_all_chars"}, {"extract_all_chars"},
            {"vocabs"}, "preprocess"),
       Stmt(213, {"vocabs"}, {}, {"dataset_vocab"}, "none"),
       Stmt(214, {"tokenizer"}, {}, {"tokenizer_vocab"}, "none") >>,
    << Stmt(225, {"dataset_vocab", "tokenizer_vocab"}, {}, {}, "none"),
       Stmt(228, {}, {}, {"replacements"}, "none"),
       Def(240, "cleanup_text", {}),
       Stmt(246, {"dataset", "cleanup_text"}, {"cleanup_text"}, {"dataset"},
            "preprocess") >>,
    << Stmt(273, {"defaultdict"}, {}, {"speaker_counts"}, "none"),
       Stmt(275, {"dataset", "speaker_counts"}, {}, {"speaker_id"}, "none") >>,
    << Stmt(287, {"plt"}, {}, {}, "none"),
       Stmt(288, {"plt", "speaker_counts"}, {}, {}, "none"),
       Stmt(289, {"plt"}, {}, {}, "none"),
       Stmt(290, {"plt"}, {}, {}, "none"),
       Stmt(291, {"plt"}, {}, {}, "none") >>,
    << Def(313, "select_speaker", {}),
       Stmt(316, {"dataset", "select_speaker"}, {"select_speaker"},
            {"dataset"}, "preprocess") >>,
    << Stmt(327, {"dataset"}, {}, {}, "none") >>,
    << Stmt(338, {"dataset"}, {}, {}, "none") >>,
    << Stmt(369, {}, {}, {"spk_model_name"}, "none"),
       Stmt(370, {"get_backend"}, {}, {"device", "_"}, "none"),
       Stmt(371, {"EncoderClassifier", "spk_model_name", "device", "os"}, {},
            {"speaker_model"}, "none"),
       Def(378, "create_speaker_embedding", {}) >>,
    << Def(413, "prepare_dataset", {}) >>,
    << Stmt(440, {"prepare_dataset", "dataset"}, {"prepare_dataset"},
            {"processed_example"}, "none"),
       \* "\n" + list(...): str + list
       Raising(Stmt(441, {"processed_example"}, {}, {}, "none"), "TypeError"),
       \* "\n" + torch.Size
       Raising(Stmt(444, {"processed_example"}, {}, {}, "none"), "TypeError") >>,
    << Stmt(455, {"plt"}, {}, {}, "none"),
       Stmt(456, {"plt", "processed_example"}, {}, {}, "none"),
       Stmt(457, {"plt"}, {}, {}, "none"),
       Stmt(458, {"plt"}, {}, {}, "none") >>,
    << Def(468, "is_not_too_long", {}),
       Stmt(477, {"dataset", "is_not_too_long"}, {"is_not_too_long"},
            {"dataset"}, "preprocess"),
       Stmt(478, {"dataset"}, {}, {}, "none") >>,
    << Stmt(490, {"dataset", "prepare_dataset"}, {"prepare_dataset"},
            {"dataset"}, "preprocess") >>,
    << Stmt(501, {"dataset"}, {}, {"dataset"}, "none") >>,
    \* the decorator and the annotations are evaluated when the class is defined
    << Def(530, "TTSDataCollatorWithPadding",
           {"dataclass", "Any", "List", "Dict", "Union", "torch"}) >>,
    << Stmt(570, {"TTSDataCollatorWithPadding", "processor"}, {},
            {"data_collator"}, "none") >>,
    << Stmt(589, {"SpeechT5ForTextToSpeech", "checkpoint"}, {}, {"model"},
            "model") >>,
    << Stmt(601, {"model"}, {}, {}, "none") >>,
    << Stmt(613, {"Seq2SeqTrainingArguments"}, {}, {"training_args"}, "none") >>,
    << Stmt(644, {"Seq2SeqTrainer", "training_args", "model", "dataset",
                  "data_collator", "processor"}, {}, {"trainer"}, "trainer") >>,
    << Stmt(662, {"trainer"}, {"TTSDataCollatorWithPadding.__call__"}, {},
            "train") >>,
    \* lines 680-681 are comments
    << >>,
    << Stmt(707, {"pipeline"}, {}, {"pipe"}, "pipeline") >>,
    << Stmt(718, {}, {}, {"text"}, "none") >>,
    << Stmt(730, {"dataset"}, {}, {"example"}, "none"),
       Stmt(731, {"torch", "example"}, {}, {"speaker_embeddings"}, "none") >>,
    << Stmt(742, {"speaker_embeddings"}, {}, {"forward_params"}, "none"),
       Stmt(743, {"pipe", "text", "forward_params"}, {}, {"output"}, "infer"),
       Stmt(744, {"output"}, {}, {}, "none") >>,
    << Stmt(755, {"Audio", "output"}, {}, {}, "none") >>,
    << Stmt(773, {"SpeechT5ForTextToSpeech"}, {}, {"model"}, "model") >>,
    << Stmt(784, {"dataset"}, {}, {"example"}, "none"),
       Stmt(785, {"torch", "example"}, {}, {"speaker_embeddings"}, "none") >>,
    << Stmt(796, {}, {}, {"text"}, "none"),
       Stmt(797, {"processor", "text"}, {}, {"inputs"}, "none") >>,
    << >>,
    << Stmt(816, {"model", "inputs", "speaker_embeddings"}, {},
            {"spectrogram"}, "infer"),
       Stmt(818, {"plt"}, {}, {}, "none"),
       Stmt(819, {"plt", "spectrogram"}, {}, {}, "none"),
       Stmt(820, {"plt"}, {}, {}, "none") >>,
    << Stmt(831, {"torch", "vocoder", "spectrogram"}, {}, {"speech"}, "none"),
       Import(834, {<<"Audio", "IPython.display.Audio">>}),
       Stmt(836, {"Audio", "speech"}, {}, {}, "none") >>,
    << >>
>>

(***************************************************************************)
(* 01_image_captioning.ipynb, first notebook (lines 1-311): captioning.    *)
(***************************************************************************)
ImageCaptioningNotebook == <<
    << Shell(30), Shell(31) >>,
    << Import(41, {<<"torch", "torch">>}),
       Import(42, {<<"requests", "requests">>}),
       Import(43, {<<"np", "numpy">>}),
       Import(44, {<<"Image", "PIL.Image">>}),
       Import(45, {<<"wrap", "textwrap.wrap">>}),
       Import(46, {<<"load", "evaluate.load">>}),
       Import(47, {<<"plt", "matplotlib.pyplot">>}),
       Import(48, {<<"load_dataset", "datasets.load_dataset">>}),
       Import(49, {<<"AutoProcessor", "transformers.AutoProcessor">>,
                   <<"AutoModelForCausalLM",
                     "transformers.AutoModelForCausalLM">>,
                   <<"TrainingArguments", "transformers.TrainingArguments">>,
                   <<"Trainer", "transformers.Trainer">>}) >>,
    << Stmt(70, {"load_dataset"}, {}, {"ds"}, "load"),
       Stmt(73, {"ds"}, {}, {}, "none") >>,
    << Stmt(84, {"ds"}, {}, {"ds"}, "none"),
       Stmt(85, {"ds"}, {}, {"train_ds"}, "none"),
       Stmt(86, {"ds"}, {}, {"test_ds"}, "none") >>,
    << Def(97, "plot_images", {}),
       Stmt(108, {"np", "train_ds"}, {}, {"sample_images_to_visualize"},
            "none"),
       Stmt(109, {"train_ds"}, {}, {"sample_captions"}, "none"),
       Stmt(110, {"plot_images", "sample_images_to_visualize",
                  "sample_captions"}, {"plot_images"}, {}, "none") >>,
    << Stmt(129, {}, {}, {"checkpoint"}, "none"),
       Stmt(130, {"AutoProcessor", "checkpoint"}, {}, {"processor"}, "none") >>,
    \* set_transform registers the function; it runs when examples are read
    << Def(142, "transforms", {}),
       Stmt(149, {"train_ds", "transforms"}, {}, {}, "preprocess"),
       Stmt(150, {"test_ds", "transforms"}, {}, {}, "preprocess") >>,
    << Stmt(171, {"load"}, {}, {"wer"}, "none"),
       Def(173, "compute_metrics", {}) >>,
    << Stmt(198, {"AutoModelForCausalLM", "checkpoint"}, {}, {"model"},
            "model") >>,
    << Stmt(209, {"checkpoint"}, {}, {"model_name"}, "none"),
       Stmt(211, {"TrainingArguments", "model_name"}, {}, {"training_args"},
            "none"),
       Stmt(231, {"Trainer", "model", "training_args", "train_ds", "test_ds",
                  "compute_metrics"}, {}, {"trainer"}, "trainer"),
       Stmt(240, {"trainer"}, {"transforms", "compute_metrics"}, {},
            "train") >>,
    << Stmt(259, {}, {}, {"url"}, "none"),
       Stmt(260, {"Image", "requests", "url"}, {}, {"image"}, "none"),
       Stmt(261, {"image"}, {}, {}, "none") >>,
    << Stmt(272, {"processor", "image", "device"}, {}, {"inputs"}, "none"),
       Stmt(273, {"inputs"}, {}, {"pixel_values"}, "none") >>,
    << Stmt(284, {"model", "pixel_values"}, {}, {"generated_ids"}, "infer"),
       Stmt(285, {"processor", "generated_ids"}, {}, {"generated_caption"},
            "none"),
       Stmt(286, {"generated_caption"}, {}, {}, "none") >>
>>

(***************************************************************************)
(* 01_image_captioning.ipynb, second notebook (lines 313-795): VQA, by its *)
(* sections: "Libraries" to "Preprocessing", "Training", then "Inference"  *)
(* and "Zero-shot VQA".                                                    *)
(***************************************************************************)
VqaDataCells == <<
    << Shell(352), Shell(353) >>,
    << Import(363, {<<"torch", "torch">>}),
       Import(364, {<<"itertools", "itertools">>}),
       Import(365, {<<"Image", "PIL.Image">>}),
       Import(366, {<<"load_dataset", "datasets.load_dataset">>}),
       \* line 367, the import of get_backend, is commented out
       Import(368, {<<"AutoProcessor", "transformers.AutoProcessor">>,
                    <<"Blip2ForConditionalGeneration",
                      "transformers.Blip2ForConditionalGeneration">>}),
       Import(369, {<<"ViltProcessor", "transformers.ViltProcessor">>,
                    <<"DefaultDataCollator",
                      "transformers.DefaultDataCollator">>,
                    <<"ViltForQuestionAnswering",
                      "transformers.ViltForQuestionAnswering">>,
                    <<"TrainingArguments", "transformers.TrainingArguments">>,
                    <<"Trainer", "transformers.Trainer">>,
                    <<"pipeline", "transformers.pipeline">>}) >>,
    \* line 384, the assignment of device, is commented out
    << Stmt(380, {}, {}, {"MODEL_CHECKPOINT"}, "none"),
       Stmt(381, {"torch"}, {}, {"MPS_DEVICE"}, "none") >>,
    << Stmt(403, {"load_dataset"}, {}, {"dataset"}, "load"),
       Stmt(404, {"dataset"}, {}, {}, "none") >>,
    << Stmt(419, {"dataset"}, {}, {}, "none") >>,
    << Stmt(430, {"Image", "dataset"}, {}, {"image"}, "none"),
       Stmt(431, {"image"}, {}, {}, "none") >>,
    << Stmt(442, {"dataset"}, {}, {"dataset"}, "none") >>,
    << Stmt(455, {"dataset"}, {}, {"labels"}, "none"),
       Stmt(456, {"itertools", "labels"}, {}, {"flattened_labels"}, "none"),
       Stmt(457, {"flattened_labels"}, {}, {"unique_labels"}, "none"),
       Stmt(461, {"unique_labels"}, {}, {"label2id"}, "none"),
       Stmt(462, {"label2id"}, {}, {"id2label"}, "none") >>,
    << Def(473, "replace_ids", {}),
       Stmt(477, {"dataset", "replace_ids"}, {"replace_ids"}, {"dataset"},
            "preprocess"),
       Stmt(478, {"dataset"}, {}, {"flat_dataset"}, "none"),
       Stmt(479, {"flat_dataset"}, {}, {}, "none") >>,
    << Stmt(499, {"ViltProcessor", "MODEL_CHECKPOINT"}, {}, {"processor"},
            "none") >>,
    << Def(512, "preprocess_data", {}) >>,
    << Stmt(545, {}, {}, {"cols_to_remove"}, "none"),
       Stmt(546, {"flat_dataset", "preprocess_data", "cols_to_remove"},
            {"preprocess_data"}, {"processed_dataset"}, "preprocess"),
       Stmt(549, {"processed_dataset"}, {}, {}, "none") >>,
    << Stmt(560, {"DefaultDataCollator"}, {}, {"data_collator"}, "none") >>
>>

VqaTrainingCells == <<
    << Stmt(580, {"ViltForQuestionAnswering", "MODEL_CHECKPOINT", "id2label",
                  "label2id"}, {}, {"model"}, "model"),
       Stmt(584, {"model", "MPS_DEVICE"}, {}, {}, "none") >>,
    << Stmt(595, {"TrainingArguments"}, {}, {"training_args"}, "none") >>,
    << Stmt(616, {"Trainer", "model", "training_args", "data_collator",
                  "processed_dataset"}, {}, {"trainer"}, "trainer") >>,
    << Stmt(632, {"trainer"}, {}, {}, "train") >>
>>

VqaInferenceCells == <<
    << Stmt(651, {"pipeline"}, {}, {"pipe"}, "pipeline") >>,
    << Stmt(663, {"dataset"}, {}, {"example"}, "none"),
       Stmt(664, {"Image", "example"}, {}, {"image"}, "none"),
       Stmt(665, {"example"}, {}, {"question"}, "none"),
       Stmt(666, {"question"}, {}, {}, "none"),
       Stmt(667, {"pipe", "image", "question"}, {}, {}, "infer") >>,
    << Stmt(678, {"ViltProcessor"}, {}, {"processor"}, "none"),
       Stmt(680, {"Image", "example"}, {}, {"image"}, "none"),
       Stmt(681, {"example"}, {}, {"question"}, "none"),
       Stmt(684, {"processor", "image", "question"}, {}, {"inputs"}, "none"),
       Stmt(686, {"ViltForQuestionAnswering"}, {}, {"model"}, "model"),
       Stmt(689, {"torch", "model", "inputs"}, {}, {"outputs"}, "infer"),
       Stmt(692, {"outputs"}, {}, {"logits"}, "none"),
       Stmt(693, {"logits"}, {}, {"idx"}, "none"),
       Stmt(694, {"model", "idx"}, {}, {}, "none") >>,
    << Stmt(720, {"AutoProcessor"}, {}, {"processor"}, "none"),
       Stmt(721, {"Blip2ForConditionalGeneration", "torch"}, {}, {"model"},
            "model") >>,
    << Stmt(733, {"dataset"}, {}, {"example"}, "none"),
       Stmt(734, {"Image", "example"}, {}, {"image"}, "none"),
       Stmt(735, {"example"}, {}, {"question"}, "none") >>,
    << Stmt(746, {"question"}, {}, {"prompt"}, "none") >>,
    << Stmt(757, {"processor", "image", "prompt", "device", "torch"}, {},
            {"inputs"}, "none"),
       Stmt(760, {"model", "inputs"}, {}, {"generated_ids"}, "infer"),
       Stmt(761, {"processor", "generated_ids"}, {}, {"generated_text"},
            "none"),
       Stmt(762, {"generated_text"}, {}, {}, "none") >>
>>

\* a VQA notebook whose "Inference" section stands before "Training"
VqaNotebookInferenceFirst ==
    VqaDataCells \o VqaInferenceCells \o VqaTrainingCells

VqaNotebook == VqaDataCells \o VqaTrainingCells \o VqaInferenceCells

(***************************************************************************)
(* unnamed/part_001: the document question answering notebook.             *)
(***************************************************************************)
DocVqaNotebook == <<
    << Shell(40) >>,
    << Shell(139), Shell(140), Shell(141) >>,
    << Shell(151) >>,
    << Import(161, {<<"load_dataset", "datasets.load_dataset">>}) >>,
    << Stmt(173, {}, {}, {"model_checkpoint"}, "none"),
       Stmt(174, {}, {}, {"batch_size"}, "none") >>,
    << Stmt(214, {"load_dataset"}, {}, {"dataset"}, "load"),
       Stmt(215, {"dataset"}, {}, {}, "none") >>,
    << Stmt(250, {"dataset"}, {}, {}, "none") >>,
    << Stmt(334, {"dataset"}, {}, {"updated_dataset"}, "preprocess"),
       Stmt(335, {"updated_dataset"}, {}, {"updated_dataset"},
            "preprocess") >>,
    << Stmt(379, {"updated_dataset"}, {}, {"updated_dataset"},
            "preprocess") >>,
    << Stmt(409, {"updated_dataset"}, {}, {}, "none") >>,
    << >>
>>

(***************************************************************************)
(* unnamed/part_000: the captioning notebook up to preprocessing.          *)
(***************************************************************************)
CaptioningPreprocessingNotebook == <<
    << Shell(30), Shell(31) >>,
    << Import(41, {<<"np", "numpy">>}),
       Import(42, {<<"wrap", "textwrap.wrap">>}),
       Import(43, {<<"plt", "matplotlib.pyplot">>}),
       Import(44, {<<"load_dataset", "datasets.load_dataset">>}),
       Import(45, {<<"AutoProcessor", "transformers.AutoProcessor">>}) >>,
    << Stmt(65, {"load_dataset"}, {}, {"ds"}, "load"),
       Stmt(68, {"ds"}, {}, {}, "none") >>,
    << Stmt(79, {"ds"}, {}, {"ds"}, "none"),
       Stmt(80, {"ds"}, {}, {"train_ds"}, "none"),
       Stmt(81, {"ds"}, {}, {"test_ds"}, "none") >>,
    << Def(92, "plot_images", {}),
       Stmt(103, {"np", "train_ds"}, {}, {"sample_images_to_visualize"},
            "none"),
       Stmt(104, {"train_ds"}, {}, {"sample_captions"}, "none"),
       Stmt(105, {"plot_images", "sample_images_to_visualize",
                  "sample_captions"}, {"plot_images"}, {}, "none") >>,
    << Stmt(124, {}, {}, {"checkpoint"}, "none"),
       Stmt(125, {"AutoProcessor", "checkpoint"}, {}, {"processor"}, "none") >>,
    << Def(137, "transforms", {}),
       Stmt(144, {"train_ds", "transforms"}, {}, {}, "preprocess"),
       Stmt(145, {"test_ds", "transforms"}, {}, {}, "preprocess") >>,
    << >>
>>

NotebookNames == {"text_to_speech", "image_captioning", "vqa", "docvqa",
                  "captioning_preprocessing"}

Notebook(n) ==
    CASE n = "text_to_speech" -> TextToSpeechNotebook
      [] n = "image_captioning" -> ImageCaptioningNotebook
      [] n = "vqa" -> VqaNotebook
      [] n = "docvqa" -> DocVqaNotebook
      [] n = "captioning_preprocessing" -> CaptioningPreprocessingNotebook

(***************************************************************************)
(* The kernel.  A cell runs statement by statement; a statement that       *)
(* raises ends its cell at once and binds nothing.  After a failed cell    *)
(* either the run stops there ("Run All") or the next cell is run (cells   *)
(* run by hand, one after the other).                                      *)
(***************************************************************************)
NoMore ==
    /\ cell_start = << >>
    /\ vocabs = << >>
    /\ files = << >>

NoData ==
    /\ pc = "none"
    /\ dataset = << >>
    /\ unique_labels = << >>
    /\ label2id = << >>
    /\ id2label = << >>
    /\ flat_dataset = << >>
    /\ processed_dataset = << >>
    /\ speaker_counts = << >>
    /\ features = << >>
    /\ reduction_factor = 0
    /\ batch = << >>
    /\ updated_dataset = << >>
    /\ NoMore

NoNotebook ==
    /\ nb = "none"
    /\ cell = 0
    /\ stmt = 0
    /\ env = << >>
    /\ log = << >>
    /\ errors = {}
    /\ status = "none"

NotebookInit ==
    /\ nb \in NotebookNames
    /\ cell = 1
    /\ stmt = 1
    /\ env = << >>
    /\ log = << >>
    /\ errors = {}
    /\ status = "running"
    /\ NoData

Cells == Notebook(nb)

AtStatement ==
    /\ status = "running"
    /\ cell <= Len(Cells)
    /\ stmt <= Len(Cells[cell])

CurrentStatement == Cells[cell][stmt]

\* every global name looked up while the statement runs
Needed(s) ==
    s.reads \cup
    UNION { FunctionBody(f).reads \cup
            UNION { FunctionBody(g).reads : g \in FunctionBody(f).calls }
            : f \in s.calls }

Missing(s) == Needed(s) \ DOMAIN env

\* which Audio a statement that calls Audio needs: the player takes
\* (data, rate=...), the dataset feature takes (sampling_rate=...)
AudioCalled(s) ==
    IF s.line = 148 THEN "datasets.Audio" ELSE "IPython.display.Audio"

\* the statement calls Audio with the arguments of the other class
WrongAudio(s) ==
    /\ nb = "text_to_speech"
    /\ "Audio" \in s.reads
    /\ "Audio" \in DOMAIN env
    /\ env["Audio"][1] # AudioCalled(s)

Outcome(s) ==
    IF Missing(s) # {} THEN "NameError"
    ELSE IF WrongAudio(s) THEN "TypeError"
    ELSE s.raises

Bind(e, s) ==
    LET names == { b[1] : b \in s.binds }
        origin(n) == (CHOOSE b \in s.binds : b[1] = n)[2]
    IN  [n \in DOMAIN e \cup names |->
            IF n \in names THEN <<origin(n), s.line>> ELSE e[n]]

Record(l, s) ==
    IF s.op = "none" THEN l ELSE Append(l, [op |-> s.op, line |-> s.line])

RunStatement ==
    /\ AtStatement
    /\ Outcome(CurrentStatement) = "none"
    /\ env' = Bind(env, CurrentStatement)
    /\ log' = Record(log, CurrentStatement)
    /\ stmt' = stmt + 1
    /\ UNCHANGED <<nb, cell, errors, status>>
    /\ UNCHANGED dataVars

RaiseException ==
    /\ AtStatement
    /\ Outcome(CurrentStatement) # "none"
    /\ errors' = errors \cup
           {[line |-> CurrentStatement.line,
             kind |-> Outcome(CurrentStatement),
             names |-> Missing(CurrentStatement)]}
    /\ status' = "failed"
    /\ UNCHANGED <<nb, cell, stmt, env, log>>
    /\ UNCHANGED dataVars

NextCell ==
    /\ status = "running"
    /\ stmt > Len(Cells[cell])
    /\ cell < Len(Cells)
    /\ cell' = cell + 1
    /\ stmt' = 1
    /\ UNCHANGED <<nb, env, log, errors, status>>
    /\ UNCHANGED dataVars

Finish ==
    /\ status = "running"
    /\ stmt > Len(Cells[cell])
    /\ cell = Len(Cells)
    /\ status' = "done"
    /\ UNCHANGED <<nb, cell, stmt, env, log, errors>>
    /\ UNCHANGED dataVars

\* cells run by hand: the next cell is run although this one failed
ContinueAfterError ==
    /\ status = "failed"
    /\ cell < Len(Cells)
    /\ cell' = cell + 1
    /\ stmt' = 1
    /\ status' = "running"
    /\ UNCHANGED <<nb, env, log, errors>>
    /\ UNCHANGED dataVars

\* "Run All": the run stops at the first cell that fails
Halt ==
    /\ status = "failed"
    /\ status' = "halted"
    /\ UNCHANGED <<nb, cell, stmt, env, log, errors>>
    /\ UNCHANGED dataVars

NotebookNext ==
    \/ RunStatement
    \/ RaiseException
    \/ NextCell
    \/ Finish
    \/ ContinueAfterError
    \/ Halt

SpecNotebook == NotebookInit /\ [][NotebookNext]_vars

(***************************************************************************)
(* Claims about the order of operations and the names bound (C1 - C3).     *)
(***************************************************************************)
Ops == { log[i].op : i \in DOMAIN log }

First(o) ==
    IF o \in Ops
    THEN CHOOSE i \in DOMAIN log :
            /\ log[i].op = o
            /\ \A j \in DOMAIN log : log[j].op = o => i <= j
    ELSE 0

\* if b was performed, a was performed before b's first occurrence
Precedes(a, b) == b \in Ops => (a \in Ops /\ First(a) < First(b))

RunOver == status \in {"done", "halted"}

C2_NoUnboundName ==
    nb = "text_to_speech" =>
        /\ \A e \in errors : e.kind # "NameError"
        /\ AtStatement => Missing(CurrentStatement) = {}

\* C3: in the image-captioning and the VQA notebook the name device is bound
\* when a statement moves the processed inputs to it with .to(device).
C3_DeviceBound ==
    (/\ nb \in {"image_captioning", "vqa"}
     /\ AtStatement
     /\ "device" \in CurrentStatement.reads) => "device" \in DOMAIN env

\* C16: in the text-to-speech notebook run in order, reusing the name Audio
\* causes no wrong binding: at every statement that calls
\* Audio(samples, rate=...) the name is bound to IPython.display.Audio, and
\* at the cast_column call it is bound to datasets.Audio.
C16_AudioBinding ==
    (/\ nb = "text_to_speech"
     /\ AtStatement
     /\ "Audio" \in CurrentStatement.reads
     /\ "Audio" \in DOMAIN env) =>
        env["Audio"][1] = AudioCalled(CurrentStatement)

(***************************************************************************)
(* Part 2.  The data functions.                                            *)
(***************************************************************************)
Range(q) == { q[i] : i \in DOMAIN q }

RECURSIVE Flatten(_)
Flatten(lists) ==
    IF lists = << >> THEN << >> ELSE Head(lists) \o Flatten(Tail(lists))

\* the sequences over S of length n that repeat no element
DistinctSeqs(S, n) ==
    { q \in [1..n -> S] : \A i, j \in 1..n : q[i] = q[j] => i = j }

SeqsUpTo(S, n) == UNION { [1..k -> S] : k \in 0..n }

NonEmptySeqsUpTo(S, n) == UNION { [1..k -> S] : k \in 1..n }

(***************************************************************************)
(* VQA label encoding (01_image_captioning.ipynb, lines 452-549).          *)
(* An example carries label = {ids: the annotators' distinct answers,      *)
(* weights: one weight per answer, in tenths}.                             *)
(***************************************************************************)
Answers == {"yes", "no"}

Weights == {3, 10}

MaxVqaExamples == 3

VqaExamples ==
    { [label |-> [ids |-> ids, weights |-> w]] :
        ids \in UNION { DistinctSeqs(Answers, k) : k \in 0..Cardinality(Answers) },
        w \in SeqsUpTo(Weights, Cardinality(Answers)) }

VqaInit ==
    /\ pc = "loaded"
    /\ dataset \in NonEmptySeqsUpTo(
           { e \in VqaExamples : Len(e.label.ids) = Len(e.label.weights) },
           MaxVqaExamples)
    /\ unique_labels = << >>
    /\ label2id = << >>
    /\ id2label = << >>
    /\ flat_dataset = << >>
    /\ processed_dataset = << >>
    /\ speaker_counts = << >>
    /\ features = << >>
    /\ reduction_factor = 0
    /\ batch = << >>
    /\ updated_dataset = << >>
    /\ NoMore
    /\ NoNotebook

\* labels = [item['ids'] for item in dataset['label']]
Labels(ds) == [i \in DOMAIN ds |-> ds[i].label.ids]

\* list(flattened_labels) without the set(): every occurrence, in order
ListWithoutSet(flattened_labels) == { flattened_labels }

\* list(set(flattened_labels)): the distinct labels, in an order the set picks
ListOfSet(flattened_labels) ==
    LET S == Range(flattened_labels)
    IN  { q \in [1..Cardinality(S) -> S] : Range(q) = S }

\* {label: idx for idx, label in enumerate(unique_labels)}; a later pair
\* replaces an earlier one with the same key
Label2Id(ul) ==
    [l \in Range(ul) |->
        (CHOOSE i \in DOMAIN ul :
            /\ ul[i] = l
            /\ \A j \in DOMAIN ul : ul[j] = l => j <= i) - 1]

\* {idx: label for label, idx in label2id.items()}
Id2Label(l2i) ==
    [i \in { l2i[l] : l \in DOMAIN l2i } |->
        CHOOSE l \in DOMAIN l2i : l2i[l] = i]

\* cell 452-462
BuildLabelMaps ==
    /\ pc = "loaded"
    /\ \E ul \in ListOfSet(Flatten(Labels(dataset))) :
          /\ unique_labels' = ul
          /\ label2id' = Label2Id(ul)
          /\ id2label' = Id2Label(Label2Id(ul))
    /\ pc' = "encoded"
    /\ UNCHANGED <<dataset, flat_dataset, processed_dataset, speaker_counts,
                   features, reduction_factor, batch, updated_dataset>>
    /\ UNCHANGED moreVars
    /\ UNCHANGED nbVars

\* replace_ids: inputs["label"]["ids"] = [label2id[x] for x in ...]
replace_ids(inputs) ==
    [inputs EXCEPT !.label.ids =
        [k \in DOMAIN inputs.label.ids |-> label2id[inputs.label.ids[k]]]]

\* dataset.flatten(): the columns label.ids and label.weights
FlattenColumns(ds) ==
    [i \in DOMAIN ds |->
        [label_ids |-> ds[i].label.ids, label_weights |-> ds[i].label.weights]]

\* cell 472-479: dataset = dataset.map(replace_ids); flat_dataset = ...
ReplaceIds ==
    /\ pc = "encoded"
    /\ dataset' = [i \in DOMAIN dataset |-> replace_ids(dataset[i])]
    /\ flat_dataset' = FlattenColumns(dataset')
    /\ pc' = "flattened"
    /\ UNCHANGED <<unique_labels, label2id, id2label, processed_dataset,
                   speaker_counts, features, reduction_factor, batch,
                   updated_dataset>>
    /\ UNCHANGED moreVars
    /\ UNCHANGED nbVars

Min(a, b) == IF a <= b THEN a ELSE b

\* one-hot instead of soft encoding: target[label] = 1
TargetOneHot(labels, scores, num_labels) ==
    [i \in 0..(num_labels - 1) |->
        IF \E k \in 1..Min(Len(labels), Len(scores)) : labels[k] = i
        THEN 10 ELSE 0]

\* target = torch.zeros(len(id2label));
\* for label, score in zip(labels, scores): target[label] = score
Target(labels, scores, num_labels) ==
    LET n == Min(Len(labels), Len(scores))
    IN  [i \in 0..(num_labels - 1) |->
            IF \E k \in 1..n : labels[k] = i
            THEN scores[CHOOSE k \in 1..n :
                            /\ labels[k] = i
                            /\ \A j \in 1..n : labels[j] = i => j <= k]
            ELSE 0]

\* preprocess_data(examples): only encoding["labels"] is modelled
preprocess_data(examples) ==
    [i \in DOMAIN examples |->
        [labels |-> Target(examples[i].label_ids, examples[i].label_weights,
                           Cardinality(DOMAIN id2label))]]

\* cell 544-549: processed_dataset = flat_dataset.map(preprocess_data, ...)
PreprocessData ==
    /\ pc = "flattened"
    /\ processed_dataset' = preprocess_data(flat_dataset)
    /\ pc' = "processed"
    /\ UNCHANGED <<dataset, unique_labels, label2id, id2label, flat_dataset,
                   speaker_counts, features, reduction_factor, batch,
                   updated_dataset>>
    /\ UNCHANGED moreVars
    /\ UNCHANGED nbVars

VqaNext ==
    \/ BuildLabelMaps
    \/ ReplaceIds
    \/ PreprocessData

SpecVqaLabels == VqaInit /\ [][VqaNext]_vars

\* the answer strings that occur in any example's label ids
AnswersIn(ds) == Range(Flatten(Labels(ds)))

\* C4: label2id gives every distinct answer that occurs in any example's
\* label ids exactly one id, distinct answers get distinct ids, the ids are
\* exactly 0..n-1 for n distinct answers, and id2label is the exact inverse.
C4_LabelMapsAreInverseBijections ==
    pc = "encoded" =>
        LET A == AnswersIn(dataset)
            n == Cardinality(A)
        IN  /\ DOMAIN label2id = A
            /\ { label2id[a] : a \in A } = 0..(n - 1)
            /\ \A a, b \in A : label2id[a] = label2id[b] => a = b
            /\ DOMAIN id2label = 0..(n - 1)
            /\ \A a \in A : id2label[label2id[a]] = a
            /\ \A i \in 0..(n - 1) : label2id[id2label[i]] = i

\* two distinct answers, one of them given by more than one example
C4_Witness ==
    /\ pc = "encoded"
    /\ Cardinality(DOMAIN label2id) = 2
    /\ Len(Flatten(Labels(dataset))) > 2

\* C5: preprocess_data builds for each example one target of length
\* len(id2label) (the num_labels of the model) that holds at position i the
\* weight of answer id i when i is among the example's label ids and 0 when
\* it is not.
C5_SoftTargets ==
    pc = "processed" =>
        /\ Len(processed_dataset) = Len(flat_dataset)
        /\ \A e \in DOMAIN flat_dataset :
              LET t == processed_dataset[e].labels
                  ids == flat_dataset[e].label_ids
                  w == flat_dataset[e].label_weights
              IN  /\ DOMAIN t = 0..(Cardinality(DOMAIN id2label) - 1)
                  /\ \A k \in DOMAIN ids : t[ids[k]] = w[k]
                  /\ \A i \in DOMAIN t : i \notin Range(ids) => t[i] = 0

\* an example with one of two answers, weighted 0.3: its target is (0.3, 0)
\* or (0, 0.3)
C5_Witness ==
    /\ pc = "processed"
    /\ \E e \in DOMAIN processed_dataset :
          /\ Len(flat_dataset[e].label_ids) = 1
          /\ Range(processed_dataset[e].labels) = {0, 3}

(***************************************************************************)
(* Speaker selection (04_text_to_speech.ipynb, lines 272-316).             *)
(***************************************************************************)
MinSpeakerExamples == 100

MaxSpeakerExamples == 400

Speakers == {"1122", "1593", "1723"}

\* how many examples a speaker has in the loaded dataset
ExampleCounts ==
    {0, 1, MinSpeakerExamples - 1, MinSpeakerExamples, MinSpeakerExamples + 1,
     MaxSpeakerExamples - 1, MaxSpeakerExamples, MaxSpeakerExamples + 1}

\* the examples of the speakers, speaker after speaker in the given order
RECURSIVE Grouped(_, _)
Grouped(order, count) ==
    IF order = << >> THEN << >>
    ELSE [i \in 1..count[Head(order)] |-> [speaker_id |-> Head(order)]]
         \o Grouped(Tail(order), count)

SpeakersInit ==
    /\ pc = "cast"
    /\ \E count \in [Speakers -> ExampleCounts] :
       \E order \in DistinctSeqs(Speakers, Cardinality(Speakers)) :
          dataset = Grouped(order, count)
    /\ unique_labels = << >>
    /\ label2id = << >>
    /\ id2label = << >>
    /\ flat_dataset = << >>
    /\ processed_dataset = << >>
    /\ speaker_counts = << >>
    /\ features = << >>
    /\ reduction_factor = 0
    /\ batch = << >>
    /\ updated_dataset = << >>
    /\ NoMore
    /\ NoNotebook

\* a defaultdict(int): a key never assigned reads as 0
DefaultDictGet(d, k) == IF k \in DOMAIN d THEN d[k] ELSE 0

\* speaker_counts[speaker_id] += 1, once
Increment(counts, speaker_id) ==
    [k \in DOMAIN counts \cup {speaker_id} |->
        IF k = speaker_id THEN DefaultDictGet(counts, k) + 1 ELSE counts[k]]

\* the increments of two runs of the loop, added up
AddCounts(c1, c2) ==
    [k \in DOMAIN c1 \cup DOMAIN c2 |->
        DefaultDictGet(c1, k) + DefaultDictGet(c2, k)]

\* for speaker_id in dataset["speaker_id"]: speaker_counts[speaker_id] += 1
\* over column[lo..hi]; the column is halved so that the evaluation stays
\* shallow on long columns
RECURSIVE CountLoop(_, _, _)
CountLoop(column, lo, hi) ==
    IF lo > hi THEN << >>
    ELSE IF lo = hi THEN Increment(<< >>, column[lo])
    ELSE LET mid == (lo + hi) \div 2
         IN  AddCounts(CountLoop(column, lo, mid),
                       CountLoop(column, mid + 1, hi))

\* cell 272-276
CountSpeakers ==
    /\ pc = "cast"
    /\ speaker_counts' =
          CountLoop([i \in DOMAIN dataset |-> dataset[i].speaker_id], 1,
                    Len(dataset))
    /\ pc' = "counted"
    /\ UNCHANGED <<dataset, unique_labels, label2id, id2label, flat_dataset,
                   processed_dataset, features, reduction_factor, batch,
                   updated_dataset>>
    /\ UNCHANGED moreVars
    /\ UNCHANGED nbVars

\* the bounds taken as strict: 100 < speaker_counts[speaker_id] < 400
select_speaker_strict(speaker_id) ==
    /\ MinSpeakerExamples < DefaultDictGet(speaker_counts, speaker_id)
    /\ DefaultDictGet(speaker_counts, speaker_id) < MaxSpeakerExamples

\* return 100 <= speaker_counts[speaker_id] <= 400
select_speaker(speaker_id) ==
    /\ MinSpeakerExamples <= DefaultDictGet(speaker_counts, speaker_id)
    /\ DefaultDictGet(speaker_counts, speaker_id) <= MaxSpeakerExamples

SelectSpeakerRow(example) == select_speaker(example.speaker_id)

\* cell 313-316: dataset = dataset.filter(select_speaker, ...)
FilterSpeakers ==
    /\ pc = "counted"
    /\ dataset' = SelectSeq(dataset, SelectSpeakerRow)
    /\ pc' = "speakers_selected"
    /\ UNCHANGED <<unique_labels, label2id, id2label, flat_dataset,
                   processed_dataset, speaker_counts, features,
                   reduction_factor, batch, updated_dataset>>
    /\ UNCHANGED moreVars
    /\ UNCHANGED nbVars

SpeakersNext ==
    \/ CountSpeakers
    \/ FilterSpeakers

SpecSpeakers == SpeakersInit /\ [][SpeakersNext]_vars

\* the number of examples of speaker s in ds
Occurrences(ds, s) ==
    Cardinality({ i \in DOMAIN ds : ds[i].speaker_id = s })

\* C6: right after dataset.filter(select_speaker) the dataset holds exactly
\* the examples of the speakers counted between 100 and 400 times (bounds
\* included): all examples of such a speaker are kept, all examples of any
\* other speaker are removed, so that every remaining speaker has between
\* 100 and 400 examples.
C6_SpeakerFilter ==
    [][(pc = "counted" /\ pc' = "speakers_selected") =>
          /\ \A s \in Speakers :
                IF /\ MinSpeakerExamples <= Occurrences(dataset, s)
                   /\ Occurrences(dataset, s) <= MaxSpeakerExamples
                THEN Occurrences(dataset', s) = Occurrences(dataset, s)
                ELSE Occurrences(dataset', s) = 0
          /\ \A s \in { dataset'[i].speaker_id : i \in DOMAIN dataset' } :
                /\ MinSpeakerExamples <= Occurrences(dataset', s)
                /\ Occurrences(dataset', s) <= MaxSpeakerExamples
          /\ Len(dataset') <= Len(dataset)
      ]_vars

\* a speaker with exactly 100 and one with exactly 400 examples are kept while
\* a speaker with 401 is removed
C6_Witness ==
    /\ pc = "speakers_selected"
    /\ \E a, b, c \in Speakers :
          /\ DefaultDictGet(speaker_counts, a) = MinSpeakerExamples
          /\ DefaultDictGet(speaker_counts, b) = MaxSpeakerExamples
          /\ DefaultDictGet(speaker_counts, c) = MaxSpeakerExamples + 1
          /\ Occurrences(dataset, a) = MinSpeakerExamples
          /\ Occurrences(dataset, b) = MaxSpeakerExamples
          /\ Occurrences(dataset, c) = 0

(***************************************************************************)
(* Token-length filter (04_text_to_speech.ipynb, lines 468-478).           *)
(***************************************************************************)
MaxInputLength == 200

MaxTokenExamples == 3

\* how many tokens an example's input_ids holds
TokenCounts ==
    {0, 1, MaxInputLength - 1, MaxInputLength, MaxInputLength + 1}

TokenExamples ==
    { [input_ids |-> [i \in 1..n |-> 4 + (i % 7)]] : n \in TokenCounts }

TokenInit ==
    /\ pc = "tokenized"
    /\ dataset \in NonEmptySeqsUpTo(TokenExamples, MaxTokenExamples)
    /\ unique_labels = << >>
    /\ label2id = << >>
    /\ id2label = << >>
    /\ flat_dataset = << >>
    /\ processed_dataset = << >>
    /\ speaker_counts = << >>
    /\ features = << >>
    /\ reduction_factor = 0
    /\ batch = << >>
    /\ updated_dataset = << >>
    /\ NoMore
    /\ NoNotebook

\* input_length = len(input_ids); return input_length < 200
is_not_too_long(input_ids) == Len(input_ids) < MaxInputLength

IsNotTooLongRow(example) == is_not_too_long(example.input_ids)

\* dataset = dataset.filter(is_not_too_long, input_columns=["input_ids"])
FilterTooLong ==
    /\ pc = "tokenized"
    /\ dataset' = SelectSeq(dataset, IsNotTooLongRow)
    /\ pc' = "length_filtered"
    /\ UNCHANGED <<unique_labels, label2id, id2label, flat_dataset,
                   processed_dataset, speaker_counts, features,
                   reduction_factor, batch, updated_dataset>>
    /\ UNCHANGED moreVars
    /\ UNCHANGED nbVars

TokenNext ==
    \/ FilterTooLong

SpecTokenLength == TokenInit /\ [][TokenNext]_vars

\* C7: is_not_too_long allows up to 200 tokens: the filter keeps every
\* example whose input_ids has at most 200 tokens and removes exactly the
\* longer ones.
C7_AllowsUpTo200Tokens ==
    [][(pc = "tokenized" /\ pc' = "length_filtered") =>
          dataset' = SelectSeq(dataset,
                        LAMBDA x : Len(x.input_ids) <= MaxInputLength)
      ]_vars

(***************************************************************************)
(* The data collator (04_text_to_speech.ipynb, lines 530-560).             *)
(* A feature carries input_ids, labels (a log-mel spectrogram: one row of  *)
(* NumMelBins values per time step) and speaker_embeddings.  The value at  *)
(* (example e, step t, bin b) is 100e + 10t + b, so that no two differ.    *)
(***************************************************************************)
NumMelBins == 2

MaxFrames == 5

MaxBatchSize == 3

MaxReductionFactor == 3

IgnoreValue == -100

PadValue == 0

PadTokenId == 1

Spectrogram(e, n) ==
    [t \in 1..n |-> [b \in 1..NumMelBins |-> 100 * e + 10 * t + b]]

Feature(e, n) ==
    [input_ids |-> [i \in 1..e |-> 4 + i],
     labels |-> Spectrogram(e, n),
     speaker_embeddings |-> <<e>>]

CollatorInit ==
    /\ pc = "split"
    /\ \E size \in 1..MaxBatchSize :
       \E lengths \in [1..size -> 1..MaxFrames] :
          features = [e \in 1..size |-> Feature(e, lengths[e])]
    /\ reduction_factor \in 1..MaxReductionFactor
    /\ dataset = << >>
    /\ unique_labels = << >>
    /\ label2id = << >>
    /\ id2label = << >>
    /\ flat_dataset = << >>
    /\ processed_dataset = << >>
    /\ speaker_counts = << >>
    /\ batch = << >>
    /\ updated_dataset = << >>
    /\ NoMore
    /\ NoNotebook

RECURSIVE MaxOf(_)
MaxOf(q) ==
    IF Len(q) = 1 THEN q[1]
    ELSE IF Head(q) >= MaxOf(Tail(q)) THEN Head(q) ELSE MaxOf(Tail(q))

\* right-pads q to length n
PadTo(q, n, pad) == [i \in 1..n |-> IF i <= Len(q) THEN q[i] ELSE pad]

\* processor.pad(input_ids=..., labels=..., return_tensors="pt"): inputs and
\* targets are padded to the longest of the batch, with masks that hold 1
\* on the real positions
ProcessorPad(input_ids, label_features) ==
    LET n == MaxOf([e \in DOMAIN input_ids |-> Len(input_ids[e].input_ids)])
        L == MaxOf([e \in DOMAIN label_features |->
                        Len(label_features[e].input_values)])
    IN  [input_ids |->
            [e \in DOMAIN input_ids |->
                PadTo(input_ids[e].input_ids, n, PadTokenId)],
         attention_mask |->
            [e \in DOMAIN input_ids |->
                [i \in 1..n |->
                    IF i <= Len(input_ids[e].input_ids) THEN 1 ELSE 0]],
         labels |->
            [e \in DOMAIN label_features |->
                PadTo(label_features[e].input_values, L,
                      [b \in 1..NumMelBins |-> PadValue])],
         decoder_attention_mask |->
            [e \in DOMAIN label_features |->
                [t \in 1..L |->
                    IF t <= Len(label_features[e].input_values) THEN 1 ELSE 0]]]

\* the padding left as the processor wrote it
MaskedFillNothing(labels, mask, value) == labels

\* labels.masked_fill(mask.unsqueeze(-1).ne(1), value)
MaskedFill(labels, mask, value) ==
    [e \in DOMAIN labels |->
        [t \in DOMAIN labels[e] |->
            IF mask[e][t] # 1
            THEN [b \in DOMAIN labels[e][t] |-> value]
            ELSE labels[e][t]]]

\* the length rounded up to a multiple of the reduction factor
RoundUp(length, r) == length + ((r - (length % r)) % r)

\* length - length % model.config.reduction_factor
RoundDown(length, r) == length - (length % r)

\* batch["labels"][:, :max_length]
Truncate(labels, max_length) ==
    [e \in DOMAIN labels |-> SubSeq(labels[e], 1, Min(max_length, Len(labels[e])))]

\* TTSDataCollatorWithPadding.__call__(features)
TTSDataCollatorWithPadding(fs) ==
    LET input_ids == [e \in DOMAIN fs |-> [input_ids |-> fs[e].input_ids]]
        label_features == [e \in DOMAIN fs |-> [input_values |-> fs[e].labels]]
        speaker_features == [e \in DOMAIN fs |-> fs[e].speaker_embeddings]
        padded == ProcessorPad(input_ids, label_features)
        filled == MaskedFill(padded.labels, padded.decoder_attention_mask,
                             IgnoreValue)
        target_lengths ==
            [e \in DOMAIN label_features |->
                RoundDown(Len(label_features[e].input_values),
                          reduction_factor)]
        max_length == MaxOf(target_lengths)
    IN  [input_ids |-> padded.input_ids,
         attention_mask |-> padded.attention_mask,
         labels |-> IF reduction_factor > 1
                    THEN Truncate(filled, max_length)
                    ELSE filled,
         speaker_embeddings |-> speaker_features]

\* the trainer hands a list of features to data_collator
Collate ==
    /\ pc = "split"
    /\ batch' = TTSDataCollatorWithPadding(features)
    /\ pc' = "collated"
    /\ UNCHANGED <<dataset, unique_labels, label2id, id2label, flat_dataset,
                   processed_dataset, speaker_counts, features,
                   reduction_factor, updated_dataset>>
    /\ UNCHANGED moreVars
    /\ UNCHANGED nbVars

CollatorNext ==
    \/ Collate

SpecCollator == CollatorInit /\ [][CollatorNext]_vars

\* the longest target of the batch
LongestTarget == MaxOf([e \in DOMAIN features |-> Len(features[e].labels)])

\* C8: in the labels the collator returns, every padded time step (at or
\* beyond the example's own spectrogram length) holds -100 in every mel bin
\* and every returned step inside the example's own length keeps its value.
C8_PaddingIsIgnoreValue ==
    pc = "collated" =>
        /\ DOMAIN batch.labels = DOMAIN features
        /\ \A e \in DOMAIN features :
           \A t \in DOMAIN batch.labels[e] :
              IF t > Len(features[e].labels)
              THEN \A b \in 1..NumMelBins : batch.labels[e][t][b] = IgnoreValue
              ELSE batch.labels[e][t] = features[e].labels[t]

\* a returned batch in which one example has a padded step and real steps
C8_Witness ==
    /\ pc = "collated"
    /\ \E e \in DOMAIN features :
          /\ Len(features[e].labels) >= 1
          /\ Len(batch.labels[e]) > Len(features[e].labels)

\* C9: with reduction_factor r > 1 the time dimension of the returned labels
\* is the longest target length L of the batch rounded down to a multiple of
\* r (L - L mod r): a multiple of r, at most L and less than r below L.
C9_TimeDimensionRoundedDown ==
    (pc = "collated" /\ reduction_factor > 1) =>
        \A e \in DOMAIN batch.labels :
            LET T == Len(batch.labels[e])
                L == LongestTarget
            IN  /\ T = L - (L % reduction_factor)
                /\ T % reduction_factor = 0
                /\ T <= L
                /\ L - T < reduction_factor

\* reduction factor 2 and a longest target of odd length
C9_Witness ==
    /\ pc = "collated"
    /\ reduction_factor = 2
    /\ LongestTarget % 2 = 1
    /\ Len(features) > 1
    /\ \A e \in DOMAIN batch.labels : Len(batch.labels[e]) = LongestTarget - 1

(***************************************************************************)
(* The DocVQA length filter (unnamed/part_001, lines 376-379).             *)
(* An example carries words (the OCR words) and question (a string, here   *)
(* the sequence of its characters).                                        *)
(***************************************************************************)
MaxPositionEmbeddings == 512

MaxTrainExamples == 2

Whitespace == {" "}

\* str.split(): the maximal runs of characters that are not whitespace
RECURSIVE SplitFrom(_, _, _)
SplitFrom(str, i, word) ==
    IF i > Len(str)
    THEN IF word = << >> THEN << >> ELSE <<word>>
    ELSE IF str[i] \in Whitespace
         THEN IF word = << >> THEN SplitFrom(str, i + 1, << >>)
              ELSE <<word>> \o SplitFrom(str, i + 1, << >>)
         ELSE SplitFrom(str, i + 1, Append(word, str[i]))

Split(str) == SplitFrom(str, 1, << >>)

Questions ==
    { << >>,
      <<"w", "h", "o">>,
      <<"i", "s", " ", "i", "t">>,
      <<" ", "i", "s", " ", " ", "i", "t", " ">>,
      <<"a", " ", "b", " ", "c">> }

WordCounts ==
    {MaxPositionEmbeddings - 3, MaxPositionEmbeddings - 2,
     MaxPositionEmbeddings - 1, MaxPositionEmbeddings}

DocExamples ==
    { [words |-> [i \in 1..n |-> "word"], question |-> q] :
        n \in WordCounts, q \in Questions }

DocInit ==
    /\ pc = "mapped"
    /\ updated_dataset \in
          [train : NonEmptySeqsUpTo(DocExamples, MaxTrainExamples),
           test : NonEmptySeqsUpTo(DocExamples, 1)]
    /\ dataset = << >>
    /\ unique_labels = << >>
    /\ label2id = << >>
    /\ id2label = << >>
    /\ flat_dataset = << >>
    /\ processed_dataset = << >>
    /\ speaker_counts = << >>
    /\ features = << >>
    /\ reduction_factor = 0
    /\ batch = << >>
    /\ NoMore
    /\ NoNotebook

\* len(x["words"]) + len(x["question"].split())
EstimatedLength(x) == Len(x.words) + Len(Split(x.question))

\* lambda x: len(x["words"]) + len(x["question"].split()) < 512
FitsModel(x) == EstimatedLength(x) < MaxPositionEmbeddings

\* updated_dataset = updated_dataset.filter(lambda x: ...), on every split
FilterLongDocuments ==
    /\ pc = "mapped"
    /\ updated_dataset' =
          [split \in DOMAIN updated_dataset |->
              SelectSeq(updated_dataset[split], FitsModel)]
    /\ pc' = "doc_filtered"
    /\ UNCHANGED <<dataset, unique_labels, label2id, id2label, flat_dataset,
                   processed_dataset, speaker_counts, features,
                   reduction_factor, batch>>
    /\ UNCHANGED moreVars
    /\ UNCHANGED nbVars

DocNext ==
    \/ FilterLongDocuments

SpecDocVqa == DocInit /\ [][DocNext]_vars

\* C10: the filter removes only the examples whose estimated length,
\* len(words) plus the number of whitespace-separated words of the question,
\* is longer than 512: every example whose estimated length is at most 512
\* is kept in updated_dataset.
C10_KeepsUpTo512 ==
    [][(pc = "mapped" /\ pc' = "doc_filtered") =>
          \A split \in DOMAIN updated_dataset :
              updated_dataset'[split] =
                  SelectSeq(updated_dataset[split],
                      LAMBDA x : EstimatedLength(x) <= MaxPositionEmbeddings)
      ]_vars

(***************************************************************************)
(* The DocVQA column maps (unnamed/part_001, lines 334-337): one cell of    *)
(* two statements, each a DatasetDict.map of a lambda with remove_columns.  *)
(* An example is a function from column names to values, so that DOMAIN     *)
(* gives its columns (features listed at lines 230-243).                    *)
(***************************************************************************)
MaxTestExamples == 1

EnglishQuestions == { <<"w", "h", "o">>, <<"i", "s", " ", "i", "t">> }

Queries ==
    { [de |-> <<"w", "e", "r">>, en |-> q, es |-> <<"q", "u", "i", "e", "n">>,
       fr |-> <<"q", "u", "i">>, it |-> <<"c", "h", "i">>] :
         q \in EnglishQuestions }

\* the annotators' answers: Sequence(..., length=-1), any length
AnswerLists == { << >>, <<"1999">>, <<"march", "1999">> }

RawDocExamples ==
    { [id |-> "id", image |-> "image", query |-> q, answers |-> a,
       words |-> <<"word">>, bounding_boxes |-> <<"box">>,
       answer |-> [match_score |-> 1, matched_text |-> "matched",
                   start |-> 0, text |-> "text"]] :
         q \in Queries, a \in AnswerLists }

\* the values of the names the data cells assign
Namespace ==
    [dataset |-> dataset, updated_dataset |-> updated_dataset,
     vocabs |-> vocabs]

DocMapsInit ==
    /\ nb = "docvqa"
    /\ cell = 1
    /\ stmt = 1
    /\ env = << >>
    /\ log = << >>
    /\ errors = {}
    /\ status = "running"
    /\ pc = "loaded"
    /\ dataset \in
          [train : NonEmptySeqsUpTo(RawDocExamples, MaxTrainExamples),
           test : NonEmptySeqsUpTo(RawDocExamples, MaxTestExamples)]
    /\ updated_dataset = << >>
    /\ vocabs = << >>
    /\ cell_start = Namespace
    /\ unique_labels = << >>
    /\ label2id = << >>
    /\ id2label = << >>
    /\ flat_dataset = << >>
    /\ processed_dataset = << >>
    /\ speaker_counts = << >>
    /\ features = << >>
    /\ reduction_factor = 0
    /\ batch = << >>
    /\ files = << >>

RemoveColumns(example, remove_columns) ==
    [c \in DOMAIN example \ remove_columns |-> example[c]]

\* Dataset.map: remove_columns are dropped from the input example, then the
\* function's output is merged over what is left
MergeThenRemove(example, processed, remove_columns) ==
    RemoveColumns(processed @@ example, remove_columns)

MapExample(example, processed, remove_columns) ==
    processed @@ RemoveColumns(example, remove_columns)

\* lambda example: {"question": example["query"]["en"]}
QuestionLambda(example) == [c \in {"question"} |-> example["query"]["en"]]

\* lambda example: {"answer": example["answers"][0]}
AnswerLambda(example) == [c \in {"answer"} |-> example["answers"][1]]

\* example["answers"][0] on an empty list
AnswerLambdaRaises(example) == Len(example["answers"]) = 0

\* updated_dataset = dataset.map(lambda ..., remove_columns=["query"])
MapQuestion ==
    /\ nb = "docvqa"
    /\ status = "running"
    /\ stmt = 1
    /\ updated_dataset' =
          [split \in DOMAIN dataset |->
              [i \in 1..Len(dataset[split]) |->
                  MapExample(dataset[split][i],
                             QuestionLambda(dataset[split][i]), {"query"})]]
    /\ stmt' = 2
    /\ pc' = "question_mapped"
    /\ UNCHANGED <<nb, cell, env, log, errors, status>>
    /\ UNCHANGED <<dataset, unique_labels, label2id, id2label, flat_dataset,
                   processed_dataset, speaker_counts, features,
                   reduction_factor, batch, cell_start, vocabs, files>>

\* try: ... except: pass around the statement
RaiseHandled(line, kind, names) ==
    /\ stmt' = stmt + 1
    /\ UNCHANGED <<nb, cell, env, log, errors, status>>
    /\ UNCHANGED dataVars

\* an exception leaves the statement: nothing is assigned, the cell stops
\* and the error is shown
Raise(line, kind, names) ==
    /\ errors' = errors \cup {[line |-> line, kind |-> kind, names |-> names]}
    /\ status' = "failed"
    /\ UNCHANGED <<nb, cell, stmt, env, log>>
    /\ UNCHANGED dataVars

SomeAnswerLambdaRaises ==
    \E split \in DOMAIN updated_dataset :
        \E i \in 1..Len(updated_dataset[split]) :
            AnswerLambdaRaises(updated_dataset[split][i])

\* updated_dataset = updated_dataset.map(lambda ...,
\*                       remove_columns=["answer", "answers"])
MapAnswer ==
    /\ nb = "docvqa"
    /\ status = "running"
    /\ stmt = 2
    /\ ~SomeAnswerLambdaRaises
    /\ updated_dataset' =
          [split \in DOMAIN updated_dataset |->
              [i \in 1..Len(updated_dataset[split]) |->
                  MapExample(updated_dataset[split][i],
                             AnswerLambda(updated_dataset[split][i]),
                             {"answer", "answers"})]]
    /\ stmt' = 3
    /\ status' = "done"
    /\ pc' = "mapped"
    /\ UNCHANGED <<nb, cell, env, log, errors>>
    /\ UNCHANGED <<dataset, unique_labels, label2id, id2label, flat_dataset,
                   processed_dataset, speaker_counts, features,
                   reduction_factor, batch, cell_start, vocabs, files>>

\* the lambda raises IndexError inside map: the assignment does not happen
MapAnswerRaises ==
    /\ nb = "docvqa"
    /\ status = "running"
    /\ stmt = 2
    /\ SomeAnswerLambdaRaises
    /\ Raise(335, "IndexError", {})

\* "Run All": the run stops at the cell that failed
HaltDocCells ==
    /\ nb = "docvqa"
    /\ status = "failed"
    /\ status' = "halted"
    /\ UNCHANGED <<nb, cell, stmt, env, log, errors>>
    /\ UNCHANGED dataVars

DocMapsNext ==
    \/ MapQuestion
    \/ MapAnswer
    \/ MapAnswerRaises
    \/ FilterLongDocuments
    \/ HaltDocCells

SpecDocMaps == DocMapsInit /\ [][DocMapsNext]_vars

DocColumns == {"id", "image", "words", "bounding_boxes", "answer", "question"}

\* C11: after the two maps every example of both splits has question equal
\* to the English entry of its original query and answer equal to the first
\* of its original answers, has exactly the columns id, image, words,
\* bounding_boxes, answer, question (no query, no answers), and each split
\* has as many examples as before.
C11_MappedColumns ==
    pc = "mapped" =>
        /\ DOMAIN updated_dataset = DOMAIN dataset
        /\ \A split \in DOMAIN dataset :
              /\ Len(updated_dataset[split]) = Len(dataset[split])
              /\ \A i \in 1..Len(dataset[split]) :
                    /\ DOMAIN updated_dataset[split][i] = DocColumns
                    /\ updated_dataset[split][i]["question"] =
                           dataset[split][i]["query"]["en"]
                    /\ updated_dataset[split][i]["answer"] =
                           dataset[split][i]["answers"][1]

C11_Witness ==
    /\ pc = "mapped"
    /\ Len(dataset["train"]) = MaxTrainExamples
    /\ \E i \in 1..Len(dataset["train"]) : Len(dataset["train"][i]["answers"]) > 1
    /\ \E i, j \in 1..Len(dataset["train"]) :
          dataset["train"][i]["query"]["en"] # dataset["train"][j]["query"]["en"]

(***************************************************************************)
(* Text clean-up (04_text_to_speech.ipynb, lines 227-246).  A text is the   *)
(* sequence of its characters; the accented characters are written by      *)
(* name.                                                                    *)
(***************************************************************************)
MaxTextLength == 3

\* replacements: the (src, dst) pairs, in the order of the list
replacements ==
    << <<"a_grave", "a">>,
       <<"c_cedilla", "c">>,
       <<"e_grave", "e">>,
       <<"e_diaeresis", "e">>,
       <<"i_acute", "i">>,
       <<"i_diaeresis", "i">>,
       <<"o_diaeresis", "o">>,
       <<"u_diaeresis", "u">> >>

Unsupported == { replacements[k][1] : k \in DOMAIN replacements }

Characters == Unsupported \cup {"a", "n", " "}

Texts == SeqsUpTo(Characters, MaxTextLength)

\* one example of the dataset: the transcription and the other columns
TextExamples ==
    { [normalized_text |-> t, raw_text |-> t, speaker_id |-> "1122",
       audio |-> "audio"] : t \in Texts }

CleanupInit ==
    /\ pc = "loaded"
    /\ dataset \in [1..1 -> TextExamples]
    /\ unique_labels = << >>
    /\ label2id = << >>
    /\ id2label = << >>
    /\ flat_dataset = << >>
    /\ processed_dataset = << >>
    /\ speaker_counts = << >>
    /\ features = << >>
    /\ reduction_factor = 0
    /\ batch = << >>
    /\ updated_dataset = << >>
    /\ NoMore
    /\ NoNotebook

\* str.replace(src, dst, 1): only the first occurrence
StrReplaceFirst(text, src, dst) ==
    [i \in 1..Len(text) |->
        IF text[i] = src /\ (\A j \in 1..(i - 1) : text[j] # src)
        THEN dst ELSE text[i]]

\* str.replace(src, dst) for one-character src and dst: every occurrence
StrReplace(text, src, dst) ==
    [i \in 1..Len(text) |-> IF text[i] = src THEN dst ELSE text[i]]

\* for src, dst in replacements: inputs["normalized_text"] = ....replace(...)
RECURSIVE ReplaceLoop(_, _)
ReplaceLoop(text, k) ==
    IF k > Len(replacements) THEN text
    ELSE ReplaceLoop(StrReplace(text, replacements[k][1], replacements[k][2]),
                     k + 1)

cleanup_text(inputs) ==
    [inputs EXCEPT !["normalized_text"] = ReplaceLoop(@, 1)]

\* dataset = dataset.map(cleanup_text)
CleanupText ==
    /\ pc = "loaded"
    /\ dataset' = [i \in 1..Len(dataset) |->
                     MapExample(dataset[i], cleanup_text(dataset[i]), {})]
    /\ pc' = "cleaned"
    /\ UNCHANGED <<unique_labels, label2id, id2label, flat_dataset,
                   processed_dataset, speaker_counts, features,
                   reduction_factor, batch, updated_dataset>>
    /\ UNCHANGED moreVars
    /\ UNCHANGED nbVars

CleanupNext ==
    \/ CleanupText

SpecCleanup == CleanupInit /\ [][CleanupNext]_vars

\* the letter listed for an unsupported character
Listed(c) == (CHOOSE k \in DOMAIN replacements : replacements[k][1] = c)

\* C12: cleanup_text replaces every occurrence of each of the eight
\* unsupported characters by its listed letter, so that none of the eight
\* remains; every other character stays where it was, the length of the
\* text is unchanged, and the other fields of the example are untouched.
C12_CleanupText ==
    [][(pc = "loaded" /\ pc' = "cleaned") =>
          /\ Len(dataset') = Len(dataset)
          /\ \A e \in DOMAIN dataset :
                LET old == dataset[e]["normalized_text"]
                    new == dataset'[e]["normalized_text"]
                IN  /\ Len(new) = Len(old)
                    /\ \A i \in 1..Len(old) :
                          /\ old[i] \in Unsupported =>
                                new[i] = replacements[Listed(old[i])][2]
                          /\ old[i] \notin Unsupported => new[i] = old[i]
                    /\ \A i \in 1..Len(new) : new[i] \notin Unsupported
                    /\ DOMAIN dataset'[e] = DOMAIN dataset[e]
                    /\ \A c \in DOMAIN dataset[e] \ {"normalized_text"} :
                          dataset'[e][c] = dataset[e][c]
      ]_vars

C12_Witness ==
    /\ pc = "cleaned"
    /\ Len(dataset[1]["raw_text"]) = MaxTextLength
    /\ dataset[1]["raw_text"][1] = "e_diaeresis"
    /\ dataset[1]["raw_text"][2] = "n"
    /\ dataset[1]["raw_text"][3] = "e_diaeresis"
    /\ dataset[1]["normalized_text"] = <<"e", "n", "e">>

(***************************************************************************)
(* The character vocabulary (04_text_to_speech.ipynb, lines 199-213).       *)
(* dataset.map(extract_all_chars, batched=True, batch_size=-1,              *)
(* remove_columns=dataset.column_names) hands the whole dataset to the      *)
(* function as one batch and keeps only the columns it returns.             *)
(***************************************************************************)
MaxVocabExamples == 2

MaxTranscriptLength == 2

Transcripts == SeqsUpTo({"a", "n", " "}, MaxTranscriptLength)

VocabInit ==
    /\ pc = "loaded"
    /\ dataset \in
          NonEmptySeqsUpTo(
              { [normalized_text |-> t, raw_text |-> t, speaker_id |-> "1122",
                 audio |-> "audio"] : t \in Transcripts },
              MaxVocabExamples)
    /\ unique_labels = << >>
    /\ label2id = << >>
    /\ id2label = << >>
    /\ flat_dataset = << >>
    /\ processed_dataset = << >>
    /\ speaker_counts = << >>
    /\ features = << >>
    /\ reduction_factor = 0
    /\ batch = << >>
    /\ updated_dataset = << >>
    /\ NoMore
    /\ NoNotebook

\* sep.join(strings)
RECURSIVE StrJoin(_, _)
StrJoin(sep, strings) ==
    IF strings = << >> THEN << >>
    ELSE IF Len(strings) = 1 THEN strings[1]
    ELSE strings[1] \o sep \o StrJoin(sep, Tail(strings))

\* a batch: column name -> list of the values of the examples
Batch(ds, columns) == [c \in columns |-> [i \in 1..Len(ds) |-> ds[i][c]]]

\* all_text = " ".join(batch["normalized_text"])
AllText(b) == StrJoin(<<" ">>, b["normalized_text"])

\* what extract_all_chars may return: list(set(all_text)) in any order
extract_all_chars(b) ==
    { [vocab |-> <<v>>, all_text |-> <<AllText(b)>>] :
        v \in ListOfSet(AllText(b)) }

\* vocabs = dataset.map(extract_all_chars, batched=True, batch_size=-1, ...)
ExtractAllChars ==
    /\ pc = "loaded"
    /\ vocabs' \in extract_all_chars(Batch(dataset, DOMAIN dataset[1]))
    /\ pc' = "vocab_extracted"
    /\ UNCHANGED <<dataset, unique_labels, label2id, id2label, flat_dataset,
                   processed_dataset, speaker_counts, features,
                   reduction_factor, batch, updated_dataset, cell_start, files>>
    /\ UNCHANGED nbVars

VocabNext ==
    \/ ExtractAllChars

SpecVocab == VocabInit /\ [][VocabNext]_vars

\* the characters that occur in at least one transcription
TranscriptCharacters ==
    UNION { Range(dataset[i]["normalized_text"]) : i \in DOMAIN dataset }

\* C13: the vocab returned by extract_all_chars on the whole dataset is
\* exactly the set of distinct characters of the transcriptions: a character
\* is in vocab if and only if it occurs in at least one transcription, and
\* no character appears twice.
C13_VocabIsCharacterSet ==
    pc = "vocab_extracted" =>
        LET vocab == vocabs["vocab"][1]
        IN  /\ Range(vocab) = TranscriptCharacters
            /\ \A i, j \in DOMAIN vocab : vocab[i] = vocab[j] => i = j

(***************************************************************************)
(* The data cells of the text-to-speech notebook (04_text_to_speech.ipynb,  *)
(* lines 146-490), followed for the columns of the dataset.  Here a         *)
(* Dataset is [column_names, num_rows]; a filter keeps any number of the    *)
(* rows.  A statement is                                                    *)
(*   line, call    : where it is and which Dataset method it calls          *)
(*   input_columns : the columns the call reads                             *)
(*   target        : the name it assigns ("none": an expression statement)  *)
(*   returns       : the columns the mapped function returns                *)
(*   remove_all    : remove_columns=dataset.column_names                    *)
(*   one_batch     : batched=True, batch_size=-1                            *)
(***************************************************************************)
MaxRows == 8

VoxPopuliColumns == {"audio", "raw_text", "normalized_text", "speaker_id"}

DataStatement(line, call, input_columns, target) ==
    [line |-> line, call |-> call, input_columns |-> input_columns,
     target |-> target, returns |-> {}, remove_all |-> FALSE,
     one_batch |-> FALSE]

TtsDataCells ==
    << \* dataset = dataset.cast_column("audio", Audio(sampling_rate=16000))
       << DataStatement(148, "cast_column", {"audio"}, "dataset") >>,
       \* def extract_all_chars; vocabs = dataset.map(extract_all_chars, ...)
       << DataStatement(199, "def", {}, "none"),
          [DataStatement(205, "map", {"normalized_text"}, "vocabs")
              EXCEPT !.returns = {"vocab", "all_text"},
                     !.remove_all = TRUE, !.one_batch = TRUE],
          DataStatement(213, "column", {"vocab"}, "none") >>,
       \* def cleanup_text; dataset = dataset.map(cleanup_text)
       << DataStatement(240, "def", {}, "none"),
          [DataStatement(246, "map", {"normalized_text"}, "dataset")
              EXCEPT !.returns = VoxPopuliColumns] >>,
       \* for speaker_id in dataset["speaker_id"]
       << DataStatement(275, "column", {"speaker_id"}, "none") >>,
       \* def select_speaker; dataset = dataset.filter(select_speaker, ...)
       << DataStatement(313, "def", {}, "none"),
          DataStatement(316, "filter", {"speaker_id"}, "dataset") >>,
       \* def is_not_too_long; dataset = dataset.filter(...); len(dataset)
       << DataStatement(468, "def", {}, "none"),
          DataStatement(477, "filter", {"input_ids"}, "dataset"),
          DataStatement(478, "len", {}, "none") >>,
       \* dataset = dataset.map(prepare_dataset, remove_columns=...)
       << [DataStatement(490, "map", {"audio", "normalized_text"}, "dataset")
              EXCEPT !.returns = {"input_ids", "labels", "speaker_embeddings"},
                     !.remove_all = TRUE] >> >>

TtsColumnsInit ==
    /\ nb = "text_to_speech"
    /\ cell = 1
    /\ stmt = 1
    /\ env = << >>
    /\ log = << >>
    /\ errors = {}
    /\ status = "running"
    /\ pc = "loaded"
    /\ dataset \in [column_names : {VoxPopuliColumns}, num_rows : 1..MaxRows]
    /\ updated_dataset = << >>
    /\ vocabs = << >>
    /\ cell_start = Namespace
    /\ unique_labels = << >>
    /\ label2id = << >>
    /\ id2label = << >>
    /\ flat_dataset = << >>
    /\ processed_dataset = << >>
    /\ speaker_counts = << >>
    /\ features = << >>
    /\ reduction_factor = 0
    /\ batch = << >>
    /\ files = << >>

AtDataStatement ==
    /\ nb = "text_to_speech"
    /\ status = "running"
    /\ cell <= Len(TtsDataCells)
    /\ stmt <= Len(TtsDataCells[cell])

\* the Dataset a statement works on: vocabs for vocabs["vocab"], else dataset
Receiver(s) == IF s.line = 213 THEN vocabs ELSE dataset

\* the columns the call reads that the Dataset does not have
MissingColumns(s) == s.input_columns \ Receiver(s).column_names

\* Dataset.map: the returned columns merged over the columns kept
MapColumns(d, s) ==
    [column_names |->
        (IF s.remove_all THEN {} ELSE d.column_names) \cup s.returns,
     num_rows |-> IF s.one_batch THEN 1 ELSE d.num_rows]

\* the Datasets the call may return
Returned(d, s) ==
    CASE s.call = "map" -> { MapColumns(d, s) }
      [] s.call = "filter" ->
            { [column_names |-> d.column_names, num_rows |-> n] :
                n \in 0..d.num_rows }
      [] OTHER -> { d }

\* the statement completes: its target is assigned what the call returns
RunDataStatement ==
    /\ AtDataStatement
    /\ LET s == TtsDataCells[cell][stmt]
       IN  /\ MissingColumns(s) = {}
           /\ \E result \in Returned(dataset, s) :
                 /\ dataset' = IF s.target = "dataset" THEN result ELSE dataset
                 /\ vocabs' = IF s.target = "vocabs" THEN result ELSE vocabs
           /\ log' = Append(log, [op |-> s.call, line |-> s.line])
    /\ stmt' = stmt + 1
    /\ pc' = "columns"
    /\ UNCHANGED <<nb, cell, env, errors, status>>
    /\ UNCHANGED <<unique_labels, label2id, id2label, flat_dataset,
                   processed_dataset, speaker_counts, features,
                   reduction_factor, batch, updated_dataset, cell_start, files>>

\* the call reads a column the Dataset does not have
RaiseMissingColumn ==
    /\ AtDataStatement
    /\ MissingColumns(TtsDataCells[cell][stmt]) # {}
    /\ Raise(TtsDataCells[cell][stmt].line, "ValueError",
             MissingColumns(TtsDataCells[cell][stmt]))

NextDataCell ==
    /\ nb = "text_to_speech"
    /\ status = "running"
    /\ cell < Len(TtsDataCells)
    /\ stmt > Len(TtsDataCells[cell])
    /\ cell' = cell + 1
    /\ stmt' = 1
    /\ cell_start' = Namespace
    /\ UNCHANGED <<nb, env, log, errors, status>>
    /\ UNCHANGED <<pc, dataset, unique_labels, label2id, id2label,
                   flat_dataset, processed_dataset, speaker_counts, features,
                   reduction_factor, batch, updated_dataset, vocabs, files>>

FinishDataCells ==
    /\ nb = "text_to_speech"
    /\ status = "running"
    /\ cell = Len(TtsDataCells)
    /\ stmt > Len(TtsDataCells[cell])
    /\ status' = "done"
    /\ UNCHANGED <<nb, cell, stmt, env, log, errors>>
    /\ UNCHANGED dataVars

\* cells run by hand: the next cell is run although this one failed
ContinueDataCells ==
    /\ nb = "text_to_speech"
    /\ status = "failed"
    /\ cell < Len(TtsDataCells)
    /\ cell' = cell + 1
    /\ stmt' = 1
    /\ status' = "running"
    /\ cell_start' = Namespace
    /\ UNCHANGED <<nb, env, log, errors>>
    /\ UNCHANGED <<pc, dataset, unique_labels, label2id, id2label,
                   flat_dataset, processed_dataset, speaker_counts, features,
                   reduction_factor, batch, updated_dataset, vocabs, files>>

\* "Run All": the run stops at the cell that failed
HaltDataCells ==
    /\ nb = "text_to_speech"
    /\ status = "failed"
    /\ status' = "halted"
    /\ UNCHANGED <<nb, cell, stmt, env, log, errors>>
    /\ UNCHANGED dataVars

TtsColumnsNext ==
    \/ RunDataStatement
    \/ RaiseMissingColumn
    \/ NextDataCell
    \/ FinishDataCells
    \/ ContinueDataCells
    \/ HaltDataCells

SpecTtsColumns == TtsColumnsInit /\ [][TtsColumnsNext]_vars

\* C15: in the text-to-speech notebook run in order, every column a
\* dataset.map or dataset.filter call reads exists in the dataset at the
\* moment of the call; in particular input_ids, read by
\* dataset.filter(is_not_too_long, input_columns=["input_ids"]), has been
\* produced by prepare_dataset when that filter runs.
C15_ColumnsExist ==
    AtDataStatement =>
        (TtsDataCells[cell][stmt].call \in {"map", "filter"} =>
            MissingColumns(TtsDataCells[cell][stmt]) = {})

(***************************************************************************)
(* The data cells of both notebooks, for what happens when a statement     *)
(* raises.                                                                  *)
(***************************************************************************)
DataCellsInit ==
    \/ DocMapsInit
    \/ TtsColumnsInit

DataCellsNext ==
    \/ DocMapsNext
    \/ TtsColumnsNext

SpecDataCells == DataCellsInit /\ [][DataCellsNext]_vars

\* the statement about to run raises
AtRaisingStatement ==
    \/ /\ nb = "docvqa"
       /\ status = "running"
       /\ stmt = 2
       /\ SomeAnswerLambdaRaises
    \/ /\ AtDataStatement
       /\ MissingColumns(TtsDataCells[cell][stmt]) # {}

\* C14 as stated: when a statement of a cell raises, the variable it would
\* have assigned keeps the value it had before the cell ran.
C14_KeepsValueBeforeCell ==
    status = "failed" => Namespace = cell_start

\* C14, amended: no cell handles an exception: when a library call or a
\* mapping function inside a cell raises, the cell stops at the failing
\* statement, none of its later statements run, the error reaches the user,
\* and the variable the failing statement would have assigned keeps the
\* value it had just before that statement ran (assignments made by earlier
\* statements of the same cell stay in effect).
C14_UncaughtException ==
    [][/\ AtRaisingStatement =>
             /\ status' = "failed"
             /\ errors' # errors
             /\ cell' = cell
             /\ stmt' = stmt
             /\ log' = log
             /\ Namespace' = Namespace
       /\ status = "failed" =>
             /\ log' = log
             /\ Namespace' = Namespace
             /\ cell' # cell \/ stmt' = stmt
      ]_vars

C14_Witness ==
    /\ nb = "docvqa"
    /\ status = "failed"
    /\ \E e \in errors : e.kind = "IndexError"
    /\ updated_dataset # << >>
    /\ cell_start["updated_dataset"] = << >>
    /\ \A split \in DOMAIN updated_dataset :
          \A i \in 1..Len(updated_dataset[split]) :
              "question" \in DOMAIN updated_dataset[split][i]

(***************************************************************************)
(* The training output directory and the inference cells that load from it *)
(* (01_image_captioning.ipynb, lines 595-686; 04_text_to_speech.ipynb,     *)
(* lines 613-773).  files maps a path to the set of file names in that     *)
(* directory: <<dir>> is the output directory itself, <<dir, n>> its       *)
(* sub-directory checkpoint-n.  env maps a name to the object it is bound  *)
(* to.  No cell calls save_model or save_pretrained; the only call in the  *)
(* source is commented out (04_text_to_speech.ipynb, line 681).            *)
(***************************************************************************)
MaxDatasetRows == 48

VqaTrainBatchSize == 4

VqaTrainEpochs == 20

VqaSaveSteps == 200

VqaSaveTotalLimit == 2

TtsMaxSteps == 4000

TtsSaveSteps == 1000

ModelFiles == {"config.json", "model.safetensors"}

ProcessorFiles == {"preprocessor_config.json"}

TrainerStateFiles == {"optimizer.pt", "scheduler.pt", "trainer_state.json",
                      "training_args.bin"}

\* every name some statement of the notebook binds
NamesBound(n) ==
    UNION { UNION { { b[1] : b \in Notebook(n)[c][i].binds } :
                      i \in DOMAIN Notebook(n)[c] } :
              c \in DOMAIN Notebook(n) }

\* TrainingArguments(...) / Seq2SeqTrainingArguments(...)
TrainingArgs(n) ==
    IF n = "vqa"
    THEN [output_dir |-> "vqa_vilt_finetuned", save_steps |-> VqaSaveSteps,
          save_total_limit |-> VqaSaveTotalLimit, push_to_hub |-> FALSE]
    ELSE [output_dir |-> "speecht5_finetuned_voxpopuli_nl",
          save_steps |-> TtsSaveSteps, save_total_limit |-> 0,
          push_to_hub |-> FALSE]

\* the class the trainer cell instantiates, and whether it gets the processor
TrainerClass(n) == IF n = "vqa" THEN "Trainer" ELSE "Seq2SeqTrainer"

HasProcessingClass(n) == n = "text_to_speech"

CeilDiv(a, b) == (a + b - 1) \div b

\* the number of optimisation steps of trainer.train()
MaxSteps(n, num_rows) ==
    IF n = "vqa"
    THEN VqaTrainEpochs * CeilDiv(num_rows, VqaTrainBatchSize)
    ELSE TtsMaxSteps

\* the inference statements that load from the output directory by name
Loads(n) ==
    IF n = "vqa"
    THEN << [line |-> 651, call |-> "pipeline",
             needs |-> ModelFiles \cup ProcessorFiles],
            [line |-> 678, call |-> "ViltProcessor.from_pretrained",
             needs |-> ProcessorFiles],
            [line |-> 686, call |-> "ViltForQuestionAnswering.from_pretrained",
             needs |-> ModelFiles] >>
    ELSE << [line |-> 707, call |-> "pipeline",
             needs |-> ModelFiles \cup ProcessorFiles],
            [line |-> 773, call |-> "SpeechT5ForTextToSpeech.from_pretrained",
             needs |-> ModelFiles] >>

OutputDirInit ==
    /\ nb \in {"vqa", "text_to_speech"}
    /\ cell = 0
    /\ stmt = 1
    /\ env \in [num_rows : 1..MaxDatasetRows]
    /\ log = << >>
    /\ errors = {}
    /\ status = "running"
    /\ pc = "preprocessed"
    /\ files = << >>
    /\ dataset = << >>
    /\ unique_labels = << >>
    /\ label2id = << >>
    /\ id2label = << >>
    /\ flat_dataset = << >>
    /\ processed_dataset = << >>
    /\ speaker_counts = << >>
    /\ features = << >>
    /\ reduction_factor = 0
    /\ batch = << >>
    /\ updated_dataset = << >>
    /\ cell_start = << >>
    /\ vocabs = << >>

OutputDirFrame ==
    UNCHANGED <<nb, cell, log, status, dataset, unique_labels, label2id,
                id2label, flat_dataset, processed_dataset, speaker_counts,
                features, reduction_factor, batch, updated_dataset,
                cell_start, vocabs>>

\* training_args = TrainingArguments(output_dir=..., save_steps=..., ...)
DefineTrainingArgs ==
    /\ pc = "preprocessed"
    /\ env' = [training_args |-> TrainingArgs(nb)] @@ env
    /\ pc' = "args"
    /\ UNCHANGED <<stmt, errors, files>>
    /\ OutputDirFrame

\* trainer = Trainer(model=model, args=training_args, ...)
InstantiateTrainer ==
    /\ pc = "args"
    /\ TrainerClass(nb) \in NamesBound(nb)
    /\ env' = [trainer |-> [global_step |-> 0,
                            max_steps |-> MaxSteps(nb, env.num_rows),
                            processing_class |-> HasProcessingClass(nb)]]
              @@ env
    /\ pc' = "trainer"
    /\ UNCHANGED <<stmt, errors, files>>
    /\ OutputDirFrame

\* trainer = Seq2SeqTrainer(...) with Seq2SeqTrainer never imported
InstantiateTrainerRaises ==
    /\ pc = "args"
    /\ TrainerClass(nb) \notin NamesBound(nb)
    /\ errors' = errors \cup
          {[line |-> 644, kind |-> "NameError", names |-> {TrainerClass(nb)}]}
    /\ pc' = "trainer"
    /\ UNCHANGED <<stmt, env, files>>
    /\ OutputDirFrame

\* what the Trainer writes into a checkpoint directory
CheckpointFiles(trainer) ==
    ModelFiles \cup TrainerStateFiles \cup
    (IF trainer.processing_class THEN ProcessorFiles ELSE {})

\* Trainer._save_checkpoint: output_dir/checkpoint-<step> is written, the
\* output directory itself holds no file, and the checkpoints beyond
\* save_total_limit are deleted, oldest first
SaveCheckpoint(fs, args, trainer, step) ==
    LET written ==
            [p \in DOMAIN fs \cup {<<args.output_dir>>, <<args.output_dir, step>>}
               |-> IF p = <<args.output_dir, step>> THEN CheckpointFiles(trainer)
                   ELSE IF p \in DOMAIN fs THEN fs[p] ELSE {}]
        stale ==
            IF args.save_total_limit = 0 THEN {}
            ELSE { p \in DOMAIN written :
                     /\ Len(p) = 2
                     /\ p[2] <= step - args.save_total_limit * args.save_steps }
    IN  [p \in DOMAIN written \ stale |-> written[p]]

\* one optimisation step of trainer.train(); every save_steps a checkpoint
TrainStep ==
    /\ pc \in {"trainer", "training"}
    /\ "trainer" \in DOMAIN env
    /\ env.trainer.global_step < env.trainer.max_steps
    /\ LET step == env.trainer.global_step + 1
       IN  /\ env' = [env EXCEPT !.trainer.global_step = step]
           /\ files' = IF step % env.training_args.save_steps = 0
                       THEN SaveCheckpoint(files, env.training_args,
                                           env.trainer, step)
                       ELSE files
    /\ pc' = "training"
    /\ UNCHANGED <<stmt, errors>>
    /\ OutputDirFrame

\* trainer.train() returns; nothing else is written (push_to_hub is off)
TrainEnd ==
    /\ pc \in {"trainer", "training"}
    /\ "trainer" \in DOMAIN env
    /\ env.trainer.global_step = env.trainer.max_steps
    /\ pc' = "inference"
    /\ stmt' = 1
    /\ UNCHANGED <<env, errors, files>>
    /\ OutputDirFrame

\* trainer.train() with trainer unbound
TrainRaises ==
    /\ pc = "trainer"
    /\ "trainer" \notin DOMAIN env
    /\ errors' = errors \cup
          {[line |-> 662, kind |-> "NameError", names |-> {"trainer"}]}
    /\ pc' = "inference"
    /\ stmt' = 1
    /\ UNCHANGED <<env, files>>
    /\ OutputDirFrame

\* the files of the output directory itself
OutputDirFiles ==
    IF <<TrainingArgs(nb).output_dir>> \in DOMAIN files
    THEN files[<<TrainingArgs(nb).output_dir>>] ELSE {}

AtLoad ==
    /\ pc = "inference"
    /\ stmt <= Len(Loads(nb))

\* pipeline(..., model=<output_dir>) / from_pretrained(<output_dir>): the
\* load raises OSError unless the directory itself holds the files
LoadFromOutputDir ==
    /\ AtLoad
    /\ IF Loads(nb)[stmt].needs \subseteq OutputDirFiles
       THEN /\ env' = [loaded |-> Loads(nb)[stmt].line] @@ env
            /\ errors' = errors
       ELSE /\ errors' = errors \cup
                  {[line |-> Loads(nb)[stmt].line, kind |-> "OSError",
                    names |-> Loads(nb)[stmt].needs \ OutputDirFiles]}
            /\ env' = env
    /\ stmt' = stmt + 1
    /\ UNCHANGED <<pc, files>>
    /\ OutputDirFrame

OutputDirNext ==
    \/ DefineTrainingArgs
    \/ InstantiateTrainer
    \/ InstantiateTrainerRaises
    \/ TrainStep
    \/ TrainEnd
    \/ TrainRaises
    \/ LoadFromOutputDir

SpecOutputDir == OutputDirInit /\ [][OutputDirNext]_vars

\* C17: when an inference cell loads the fine-tuned model by the name of the
\* training output directory, the cells run before it have written a
\* loadable model and processor into that directory itself.
C17_OutputDirLoadable ==
    AtLoad => Loads(nb)[stmt].needs \subseteq OutputDirFiles

=============================================================================
